---- MODULE Spec2Model ----
(***************************************************************************)
(* Name-change requests of name.service.ts: submit, deny and approve, and  *)
(* the data transfer (transferData) that approve runs in a transaction.    *)
(*                                                                         *)
(* The database is the committed tables (players, nameChanges, records,    *)
(* snapshots, memberships, participations).  A query without a             *)
(* { transaction } option runs on its own connection and reads the         *)
(* committed tables; a statement with { transaction } is buffered in the   *)
(* caller's transaction (tx[p]) and reaches the tables at commit, or is    *)
(* dropped at rollback.  A row written by an open transaction is locked:   *)
(* another transaction's statement on it waits.                            *)
(*                                                                         *)
(* Every await of the source is one step of the calling process, so calls  *)
(* interleave exactly where the event loop can switch between requests.    *)
(*                                                                         *)
(* Names are the standardized usernames: playerService.standardize and     *)
(* playerService.find are not part of the sources at hand, standardize is  *)
(* idempotent and the model's names are its fixed points.                  *)
(***************************************************************************)
EXTENDS Integers, Sequences, FiniteSets, TLC

\* ---------------------------------------------------------------- bounds

\* Number of name change requests that may be submitted.
MaxRequests == 2
\* The clock value of "new Date()": later than every stored timestamp.
Now == 3
\* Number of calls of submit, deny and approve that may be made.
MaxCalls == 4

Procs == {"h1", "h2"}
Names == {"a", "b", "c"}
NoPlayer == 0
Undefined == -1

PENDING == "PENDING"
APPROVED == "APPROVED"
DENIED == "DENIED"

\* The errors the service throws, by class and throw site.
ErrIdNotFound == "NotFoundError: Name change id was not found."
ErrNotPending == "BadRequestError: Name change status must be PENDING"
ErrPassword == "BadRequestError: Incorrect password."
ErrNotTracked == "BadRequestError: Player is not tracked yet."
ErrSimilar == "BadRequestError: There's already a similar pending name change request."
ErrOldPlayerGone == "ServerError: Old Player cannot be found in the database anymore."
\* An error raised by the store while a statement runs (the `e` of the catch).
ErrStore == "Error: store failure"
Ok == "ok"
None == "none"

\* The class of a thrown error (BadRequestError, NotFoundError and ServerError
\* of ../../errors; anything else is what the store raised).
ErrorClass(e) ==
    CASE e = ErrIdNotFound -> "NotFoundError"
      [] e \in {ErrNotPending, ErrPassword, ErrNotTracked, ErrSimilar} -> "BadRequestError"
      [] e = ErrOldPlayerGone -> "ServerError"
      [] OTHER -> "Error"

\* ---------------------------------------------------------- initial data

InitPlayers ==
    { [id |-> 1, username |-> "a"], [id |-> 2, username |-> "b"] }

InitRecords ==
    { [id |-> 1, playerId |-> 1, metric |-> "attack",  period |-> "week", value |-> 100, updatedAt |-> 1],
      [id |-> 2, playerId |-> 1, metric |-> "defence", period |-> "week", value |-> 100, updatedAt |-> 2],
      [id |-> 3, playerId |-> 1, metric |-> "magic",   period |-> "week", value |-> 100, updatedAt |-> 1],
      [id |-> 4, playerId |-> 2, metric |-> "attack",  period |-> "week", value |-> 150, updatedAt |-> 2],
      [id |-> 5, playerId |-> 2, metric |-> "defence", period |-> "week", value |-> 80,  updatedAt |-> 2],
      [id |-> 6, playerId |-> 2, metric |-> "magic",   period |-> "week", value |-> 150, updatedAt |-> 0],
      [id |-> 7, playerId |-> 2, metric |-> "ranged",  period |-> "week", value |-> 50,  updatedAt |-> 2] }

\* Player 1 either has one snapshot (at 1) or was never snapshotted.
InitSnapshots(withDonorSnapshot) ==
    (IF withDonorSnapshot
       THEN { [id |-> 1, playerId |-> 1, createdAt |-> 1, data |-> "s1"] }
       ELSE {})
    \cup
    { [id |-> 2, playerId |-> 2, createdAt |-> 0, data |-> "s2"],
      [id |-> 3, playerId |-> 2, createdAt |-> 1, data |-> "s3"],
      [id |-> 4, playerId |-> 2, createdAt |-> 2, data |-> "s4"] }

InitMemberships ==
    { [playerId |-> 1, groupId |-> 1, role |-> "leader", createdAt |-> 0],
      [playerId |-> 2, groupId |-> 1, role |-> "member", createdAt |-> 2],
      [playerId |-> 2, groupId |-> 2, role |-> "member", createdAt |-> 2],
      [playerId |-> 2, groupId |-> 3, role |-> "member", createdAt |-> 0] }

InitParticipations ==
    { [playerId |-> 1, competitionId |-> 1, createdAt |-> 0],
      [playerId |-> 2, competitionId |-> 1, createdAt |-> 2],
      [playerId |-> 2, competitionId |-> 2, createdAt |-> 2],
      [playerId |-> 2, competitionId |-> 3, createdAt |-> 0] }

\* ---------------------------------------------------------------- state

VARIABLES
    players, nameChanges, records, snapshots, memberships, participations,
    pc, op, arg, oldPlayer, newPlayer, transitionDate, fetched, tx, result,
    pre, stale, serial, calls

db == <<players, nameChanges, records, snapshots, memberships, participations>>
history == <<players, records, snapshots, memberships, participations>>
locals == <<op, arg, oldPlayer, newPlayer, transitionDate, fetched, tx, result>>
ghost == <<pre, stale, serial, calls>>
vars == <<db, pc, locals, ghost>>

PlayerIds == { pl.id : pl \in InitPlayers }
RequestIds == 1..MaxRequests

NoTx ==
    [state |-> "none", recUpd |-> {}, insSnap |-> {}, insMem |-> {}, insPart |-> {},
     destroyed |-> {}, renamed |-> {}, failedAt |-> None]
NoFetch == [old |-> {}, new |-> {}]
NoArg == [id |-> 0, password |-> FALSE, oldName |-> None, newName |-> None]

\* ------------------------------------------------- collaborators, queries

\* playerService.standardize: the names of the model are standardized.
standardize(name) == name

\* playerService.find(name): the players a lookup by username may return
\* (NoPlayer when there is none).
find(name) ==
    LET hits == { pl.id : pl \in { q \in players : q.username = standardize(name) } }
    IN  IF hits = {} THEN {NoPlayer} ELSE hits

\* NameChange.findOne({ where: { id } }): the request's index, or 0.
findOneById(id) == IF id \in 1..Len(nameChanges) THEN id ELSE 0

\* (mutant) the lookup leaves the status out: any request for the names counts.
similarRequests(oldName, newName) ==
    { i \in 1..Len(nameChanges) :
        /\ nameChanges[i].oldName = oldName
        /\ nameChanges[i].newName = newName }

\* NameChange.findOne({ where: { oldName, newName, status: PENDING } })
pendingRequests(oldName, newName) ==
    { i \in 1..Len(nameChanges) :
        /\ nameChanges[i].oldName = oldName
        /\ nameChanges[i].newName = newName
        /\ nameChanges[i].status = PENDING }

Max(S) == CHOOSE x \in S : \A y \in S : y <= x

\* snapshotService.findLatest(playerId)?.createdAt
findLatest(playerId) ==
    LET mine == { s.createdAt : s \in { t \in snapshots : t.playerId = playerId } }
    IN  IF mine = {} THEN Undefined ELSE Max(mine)

\* { [Op.gte]: bound }: a comparison with an undefined bound is a comparison
\* with NULL, which no row satisfies.
Gte(value, bound) == bound # Undefined /\ value >= bound

\* createdFilter / updatedFilter of transferData
createdFilter(rows, playerId, bound) ==
    { r \in rows : r.playerId = playerId /\ Gte(r.createdAt, bound) }
updatedFilter(rows, playerId, bound) ==
    { r \in rows : r.playerId = playerId /\ Gte(r.updatedAt, bound) }

\* ------------------------------------------------------- unique indexes

SnapshotKey(r) == <<r.playerId, r.createdAt>>
ParticipationKey(r) == <<r.playerId, r.competitionId>>
MembershipKey(r) == <<r.playerId, r.groupId>>

\* (mutant) bulkCreate without ignoreDuplicates on a table whose only unique
\* column is the id: every row is inserted.
InsertAllSnapshots(table, rows) == rows

\* bulkCreate(rows, { ignoreDuplicates: true }): the rows that are inserted,
\* one per key that the table does not hold yet.
IgnoreDuplicateSnapshots(table, rows) ==
    LET fresh == { r \in rows : \A t \in table : SnapshotKey(t) # SnapshotKey(r) }
    IN  { CHOOSE r \in fresh : SnapshotKey(r) = k : k \in { SnapshotKey(r) : r \in fresh } }
IgnoreDuplicateParticipations(table, rows) ==
    LET fresh == { r \in rows : \A t \in table : ParticipationKey(t) # ParticipationKey(r) }
    IN  { CHOOSE r \in fresh : ParticipationKey(r) = k : k \in { ParticipationKey(r) : r \in fresh } }
IgnoreDuplicateMemberships(table, rows) ==
    LET fresh == { r \in rows : \A t \in table : MembershipKey(t) # MembershipKey(r) }
    IN  { CHOOSE r \in fresh : MembershipKey(r) = k : k \in { MembershipKey(r) : r \in fresh } }

\* The rows as inserted into snapshots: each gets the next id of the table.
WithIds(table, rows) ==
    LET top == IF table = {} THEN 0 ELSE Max({ t.id : t \in table })
        rank(r) == Cardinality({ q \in rows : q.createdAt < r.createdAt
                                   \/ (q.createdAt = r.createdAt /\ q.playerId <= r.playerId) })
    IN  { [id |-> top + rank(r), playerId |-> r.playerId,
           createdAt |-> r.createdAt, data |-> r.data] : r \in rows }

\* ---------------------------------------------------- transfer functions

\* (mutant) the comparison is turned round: a lower value replaces a higher one.
OutdatedWhenHigher(oldRecords, newRecords) ==
    { [id |-> o.id, value |-> n.value] :
        <<o, n>> \in { pr \in oldRecords \X newRecords :
                         /\ pr[1].metric = pr[2].metric
                         /\ pr[1].period = pr[2].period
                         /\ pr[1].value > pr[2].value } }

\* transferRecords: the donor records whose value a recent record of the new
\* player exceeds, each with the value it is updated to.
Outdated(oldRecords, newRecords) ==
    { [id |-> o.id, value |-> n.value] :
        <<o, n>> \in { pr \in oldRecords \X newRecords :
                         /\ pr[1].metric = pr[2].metric
                         /\ pr[1].period = pr[2].period
                         /\ pr[1].value < pr[2].value } }

\* record.update({ value }): the table after the given updates.
UpdateRecords(table, updates) ==
    { IF \E u \in updates : u.id = r.id
        THEN [r EXCEPT !.value = (CHOOSE u \in updates : u.id = r.id).value,
                       !.updatedAt = Now]
        ELSE r : r \in table }

\* transferSnapshots: omit({ ...s.toJSON(), playerId: targetId }, 'id')
MovedSnapshots(newSnapshots, targetId) ==
    { [playerId |-> targetId, createdAt |-> s.createdAt, data |-> s.data] :
        s \in newSnapshots }

\* transferParticipations / transferMemberships: { ...ns.toJSON(), playerId: targetId }
MovedRows(newRows, targetId) ==
    { [r EXCEPT !.playerId = targetId] : r \in newRows }

\* ------------------------------------------------------------ transaction

OpenTx(q) == tx[q].state = "open"

\* Rows another open transaction has written and holds locked.
RecordLocked(p, ids) ==
    \E q \in Procs \ {p} : OpenTx(q) /\ \E u \in tx[q].recUpd : u.id \in ids
PlayerLocked(p, id) ==
    \E q \in Procs \ {p} : OpenTx(q)
        /\ (id \in tx[q].destroyed \/ \E u \in tx[q].renamed : u.id = id)
SnapshotKeyLocked(p, rows) ==
    \E q \in Procs \ {p} : OpenTx(q)
        /\ \E r \in rows, t \in tx[q].insSnap : SnapshotKey(r) = SnapshotKey(t)
ParticipationKeyLocked(p, rows) ==
    \E q \in Procs \ {p} : OpenTx(q)
        /\ \E r \in rows, t \in tx[q].insPart : ParticipationKey(r) = ParticipationKey(t)
MembershipKeyLocked(p, rows) ==
    \E q \in Procs \ {p} : OpenTx(q)
        /\ \E r \in rows, t \in tx[q].insMem : MembershipKey(r) = MembershipKey(t)

\* (mutant) the new player's recent records are moved to the donor as well.
CommittedRecordsWithImport(t) ==
    UpdateRecords(records, t.recUpd)
      \cup { [r EXCEPT !.playerId = (CHOOSE u \in t.renamed : TRUE).id] :
               r \in { q \in records : q.playerId \in t.destroyed /\ t.renamed # {} } }

\* The tables as the transaction's statements leave them, in statement order.
CommittedRecords(t) == UpdateRecords(records, t.recUpd)
CommittedSnapshots(t) == snapshots \cup WithIds(snapshots, t.insSnap)
CommittedParticipations(t) == participations \cup t.insPart
\* memberships.playerId is declared onDelete: 'CASCADE'
CommittedMemberships(t) ==
    { m \in memberships \cup t.insMem : m.playerId \notin t.destroyed }
CommittedPlayers(t) ==
    { IF \E u \in t.renamed : u.id = pl.id
        THEN [pl EXCEPT !.username = (CHOOSE u \in t.renamed : u.id = pl.id).username]
        ELSE pl : pl \in { q \in players : q.id \notin t.destroyed } }

\* ------------------------------------------------------------------ init

InitWith(oneAtATime) ==
    /\ players = InitPlayers
    /\ nameChanges = <<>>
    /\ records = InitRecords
    /\ snapshots \in { InitSnapshots(TRUE), InitSnapshots(FALSE) }
    /\ memberships = InitMemberships
    /\ participations = InitParticipations
    /\ pc = [p \in Procs |-> "idle"]
    /\ op = [p \in Procs |-> None]
    /\ arg = [p \in Procs |-> NoArg]
    /\ oldPlayer = [p \in Procs |-> NoPlayer]
    /\ newPlayer = [p \in Procs |-> NoPlayer]
    /\ transitionDate = [p \in Procs |-> Undefined]
    /\ fetched = [p \in Procs |-> NoFetch]
    /\ tx = [p \in Procs |-> NoTx]
    /\ result = [p \in Procs |-> None]
    /\ pre = [p \in Procs |-> <<>>]
    /\ stale = [p \in Procs |-> FALSE]
    /\ serial = oneAtATime
    /\ calls = 0

\* Request handlers run concurrently.
Init == InitWith(FALSE)
\* Each call runs to its end before the next one starts.
SerialInit == InitWith(TRUE)

\* ------------------------------------------------------------ step helpers

\* Positions whose next step reads and writes nothing another handler can
\* see (the settling of a finished call, the opening of a transaction): such
\* a step commutes with every step of the other handlers and is taken first.
LocalPcs == {"returned", "td_transaction"}

\* Whether handler p may take a step: always, unless calls run one at a time
\* or another handler is about to take a local step.
CanRun(p) ==
    /\ serial => \A q \in Procs \ {p} : pc[q] = "idle"
    /\ \A q \in Procs \ {p} : pc[q] \notin LocalPcs

\* The tables as a starting call finds them, kept for the comparison with the
\* tables it leaves when no other call runs meanwhile.
Before(p) == [pre EXCEPT ![p] = IF serial THEN db ELSE <<>>]

Goto(p, label) == pc' = [pc EXCEPT ![p] = label]

\* The call ends: with its value (Ok) or with the error thrown.
Finish(p, outcome) ==
    /\ pc' = [pc EXCEPT ![p] = "returned"]
    /\ result' = [result EXCEPT ![p] = outcome]

\* The request the call has loaded (nameChange).
Loaded(p) == nameChanges[arg[p].id]

\* Calls of submit not yet finished.
Submitting == { q \in Procs : pc[q] \in {"submit_check", "submit_create"} }

\* The names of the requests of two calls meet: same donor, same recipient
\* name, or one's donor is the other's recipient.
Overlap(p, q) ==
    {Loaded(p).oldName, Loaded(p).newName} \cap {Loaded(q).oldName, Loaded(q).newName} # {}

\* Positions of approve after its first player lookup and before its commit.
MergePcs ==
    {"approve_findNew", "td_transaction", "td_findLatest", "tr_findOld", "tr_findNew",
     "tr_update", "ts_find", "ts_create", "tm_find", "tm_create", "tp_find",
     "tp_create", "td_destroy", "td_rename", "td_commit"}
\* Positions inside the try block of transferData.
TryPcs ==
    {"tr_findOld", "tr_findNew", "tr_update", "ts_find", "ts_create", "tm_find",
     "tm_create", "tp_find", "tp_create", "td_destroy", "td_rename", "td_commit"}
\* Awaits outside any try block that read the store.
QueryPcs == {"submit_check", "approve_findOld", "approve_findNew", "td_transaction"}
SavePcs == {"submit_create", "deny_save", "approve_save"}

\* ---------------------------------------------------------------- submit

\* submit(oldName, newName), up to the lookup of the old player.
SubmitBegin(p) ==
    /\ pc[p] = "idle" /\ CanRun(p)
    /\ calls < MaxCalls /\ calls' = calls + 1
    /\ Len(nameChanges) + Cardinality(Submitting) < MaxRequests
    /\ \E oldName \in Names, newName \in Names :
         \E found \in find(oldName) :
            /\ op' = [op EXCEPT ![p] = "submit"]
            /\ arg' = [arg EXCEPT ![p] = [NoArg EXCEPT !.oldName = oldName, !.newName = newName]]
            /\ oldPlayer' = [oldPlayer EXCEPT ![p] = found]
            /\ pre' = Before(p)
            /\ IF found = NoPlayer
                 THEN Finish(p, ErrNotTracked)
                 ELSE Goto(p, "submit_check") /\ UNCHANGED result
    /\ UNCHANGED <<db, newPlayer, transitionDate, fetched, tx, stale, serial>>

\* The check for a pending request with the same names.
SubmitCheck(p) ==
    /\ pc[p] = "submit_check" /\ CanRun(p)
    /\ IF pendingRequests(arg[p].oldName, arg[p].newName) # {}
         THEN Finish(p, ErrSimilar)
         ELSE Goto(p, "submit_create") /\ UNCHANGED result
    /\ UNCHANGED <<db, op, arg, oldPlayer, newPlayer, transitionDate, fetched, tx, ghost>>

\* NameChange.create({ playerId, oldName, newName })
SubmitCreate(p) ==
    /\ pc[p] = "submit_create" /\ CanRun(p)
    /\ nameChanges' = Append(nameChanges,
                             [playerId |-> oldPlayer[p], oldName |-> arg[p].oldName,
                              newName |-> arg[p].newName, status |-> PENDING,
                              resolvedAt |-> Undefined])
    /\ Finish(p, Ok)
    /\ UNCHANGED <<history, op, arg, oldPlayer, newPlayer, transitionDate, fetched, tx, ghost>>

\* ------------------------------------------------------------------ deny

\* (mutant) the password is checked before the status.
PrecheckPasswordFirst(id, password) ==
    IF findOneById(id) = 0 THEN ErrIdNotFound
    ELSE IF ~password THEN ErrPassword
    ELSE IF nameChanges[id].status # PENDING THEN ErrNotPending
    ELSE Ok

\* (mutant) the password is not checked.
PrecheckWithoutPassword(id, password) ==
    IF findOneById(id) = 0 THEN ErrIdNotFound
    ELSE IF nameChanges[id].status # PENDING THEN ErrNotPending
    ELSE Ok

\* The checks deny and approve share: on the request's id, its status and
\* the password, in this order.  The error thrown, or Ok.
Precheck(id, password) ==
    IF findOneById(id) = 0 THEN ErrIdNotFound
    ELSE IF nameChanges[id].status # PENDING THEN ErrNotPending
    ELSE IF ~password THEN ErrPassword
    ELSE Ok

\* deny(id, adminPassword), up to its checks.
DenyBegin(p) ==
    /\ pc[p] = "idle" /\ CanRun(p)
    /\ calls < MaxCalls /\ calls' = calls + 1
    /\ \E id \in RequestIds, password \in BOOLEAN :
         /\ op' = [op EXCEPT ![p] = "deny"]
         /\ arg' = [arg EXCEPT ![p] = [NoArg EXCEPT !.id = id, !.password = password]]
         /\ pre' = Before(p)
         /\ IF Precheck(id, password) # Ok
              THEN Finish(p, Precheck(id, password))
              ELSE Goto(p, "deny_save") /\ UNCHANGED result
    /\ UNCHANGED <<db, oldPlayer, newPlayer, transitionDate, fetched, tx, stale, serial>>

\* (mutant) deny stamps the request as resolved, as approve does.
SaveDeniedResolved(request) == [request EXCEPT !.status = DENIED, !.resolvedAt = Now]

\* nameChange.status = DENIED; nameChange.save()
SaveDenied(request) == [request EXCEPT !.status = DENIED]

DenySave(p) ==
    /\ pc[p] = "deny_save" /\ CanRun(p)
    /\ nameChanges' = [nameChanges EXCEPT ![arg[p].id] = SaveDenied(@)]
    /\ Finish(p, Ok)
    /\ UNCHANGED <<history, op, arg, oldPlayer, newPlayer, transitionDate, fetched, tx, ghost>>

\* --------------------------------------------------------------- approve

\* approve(id, adminPassword), up to its checks.
ApproveBegin(p) ==
    /\ pc[p] = "idle" /\ CanRun(p)
    /\ calls < MaxCalls /\ calls' = calls + 1
    /\ \E id \in RequestIds, password \in BOOLEAN :
         /\ op' = [op EXCEPT ![p] = "approve"]
         /\ arg' = [arg EXCEPT ![p] = [NoArg EXCEPT !.id = id, !.password = password]]
         /\ pre' = Before(p)
         /\ IF Precheck(id, password) # Ok
              THEN Finish(p, Precheck(id, password))
              ELSE Goto(p, "approve_findOld") /\ UNCHANGED result
    /\ UNCHANGED <<db, oldPlayer, newPlayer, transitionDate, fetched, tx, stale, serial>>

\* oldPlayer = await playerService.find(nameChange.oldName)
ApproveFindOld(p) ==
    /\ pc[p] = "approve_findOld" /\ CanRun(p)
    /\ \E found \in find(Loaded(p).oldName) :
         oldPlayer' = [oldPlayer EXCEPT ![p] = found]
    /\ Goto(p, "approve_findNew")
    /\ UNCHANGED <<db, op, arg, newPlayer, transitionDate, fetched, tx, result, ghost>>

\* (mutant) the check that the old player was found is missing.
ApproveFindNewUnchecked(p) ==
    /\ pc[p] = "approve_findNew" /\ CanRun(p)
    /\ \E found \in find(Loaded(p).newName) :
         newPlayer' = [newPlayer EXCEPT ![p] = found]
    /\ Goto(p, "td_transaction")
    /\ UNCHANGED <<db, op, arg, oldPlayer, transitionDate, fetched, tx, result, ghost>>

\* newPlayer = await playerService.find(nameChange.newName), and the check
\* that the old player was found.
ApproveFindNew(p) ==
    /\ pc[p] = "approve_findNew" /\ CanRun(p)
    /\ \E found \in find(Loaded(p).newName) :
         newPlayer' = [newPlayer EXCEPT ![p] = found]
    /\ IF oldPlayer[p] = NoPlayer
         THEN Finish(p, ErrOldPlayerGone)
         ELSE Goto(p, "td_transaction") /\ UNCHANGED result
    /\ UNCHANGED <<db, op, arg, oldPlayer, transitionDate, fetched, tx, ghost>>

\* ---------------------------------------------------------- transferData

\* transaction = await sequelize.transaction()
TdTransaction(p) ==
    /\ pc[p] = "td_transaction" /\ CanRun(p)
    /\ tx' = [tx EXCEPT ![p] = [NoTx EXCEPT !.state = "open"]]
    /\ Goto(p, "td_findLatest")
    /\ UNCHANGED <<db, op, arg, oldPlayer, newPlayer, transitionDate, fetched, result, ghost>>

\* transitionDate = (await snapshotService.findLatest(oldPlayer.id))?.createdAt,
\* then the branch on newPlayer.
TdFindLatest(p) ==
    /\ pc[p] = "td_findLatest" /\ CanRun(p)
    /\ transitionDate' = [transitionDate EXCEPT ![p] = findLatest(oldPlayer[p])]
    /\ Goto(p, IF newPlayer[p] # NoPlayer THEN "tr_findOld" ELSE "td_rename")
    /\ UNCHANGED <<db, op, arg, oldPlayer, newPlayer, fetched, tx, result, ghost>>

\* oldRecords = await Record.findAll({ where: { playerId: targetId } })
TrFindOld(p) ==
    /\ pc[p] = "tr_findOld" /\ CanRun(p)
    /\ fetched' = [fetched EXCEPT ![p].old = { r \in records : r.playerId = oldPlayer[p] }]
    /\ Goto(p, "tr_findNew")
    /\ UNCHANGED <<db, op, arg, oldPlayer, newPlayer, transitionDate, tx, result, ghost>>

\* newRecords = await Record.findAll({ where: filter })
TrFindNew(p) ==
    /\ pc[p] = "tr_findNew" /\ CanRun(p)
    /\ fetched' = [fetched EXCEPT
                     ![p].new = updatedFilter(records, newPlayer[p], transitionDate[p])]
    /\ Goto(p, "tr_update")
    /\ UNCHANGED <<db, op, arg, oldPlayer, newPlayer, transitionDate, tx, result, ghost>>

\* (mutant) the updates run without { transaction }: they reach the table at once.
TrUpdateOutsideTransaction(p) ==
    /\ pc[p] = "tr_update" /\ CanRun(p)
    /\ records' = UpdateRecords(records, Outdated(fetched[p].old, fetched[p].new))
    /\ fetched' = [fetched EXCEPT ![p] = NoFetch]
    /\ Goto(p, "ts_find")
    /\ UNCHANGED <<players, nameChanges, snapshots, memberships, participations, op, arg,
                   oldPlayer, newPlayer, transitionDate, tx, result, ghost>>

\* The updates of the outdated records, in the transaction.
TrUpdate(p) ==
    /\ pc[p] = "tr_update" /\ CanRun(p)
    /\ LET updates == Outdated(fetched[p].old, fetched[p].new)
       IN  /\ ~RecordLocked(p, { u.id : u \in updates })
           /\ tx' = [tx EXCEPT ![p].recUpd = updates]
    /\ fetched' = [fetched EXCEPT ![p] = NoFetch]
    /\ Goto(p, "ts_find")
    /\ UNCHANGED <<db, op, arg, oldPlayer, newPlayer, transitionDate, result, ghost>>

\* newSnapshots = await Snapshot.findAll({ where: filter })
TsFind(p) ==
    /\ pc[p] = "ts_find" /\ CanRun(p)
    /\ fetched' = [fetched EXCEPT
                     ![p].new = createdFilter(snapshots, newPlayer[p], transitionDate[p])]
    /\ Goto(p, "ts_create")
    /\ UNCHANGED <<db, op, arg, oldPlayer, newPlayer, transitionDate, tx, result, ghost>>

\* Snapshot.bulkCreate(movedSnapshots, { ignoreDuplicates: true, transaction })
TsCreate(p) ==
    /\ pc[p] = "ts_create" /\ CanRun(p)
    /\ LET moved == MovedSnapshots(fetched[p].new, oldPlayer[p])
       IN  /\ ~SnapshotKeyLocked(p, moved)
           /\ tx' = [tx EXCEPT ![p].insSnap = IgnoreDuplicateSnapshots(snapshots, moved)]
    /\ fetched' = [fetched EXCEPT ![p] = NoFetch]
    /\ Goto(p, "tm_find")
    /\ UNCHANGED <<db, op, arg, oldPlayer, newPlayer, transitionDate, result, ghost>>

\* newMemberships = await Membership.findAll({ where: filter })
TmFind(p) ==
    /\ pc[p] = "tm_find" /\ CanRun(p)
    /\ fetched' = [fetched EXCEPT
                     ![p].new = createdFilter(memberships, newPlayer[p], transitionDate[p])]
    /\ Goto(p, "tm_create")
    /\ UNCHANGED <<db, op, arg, oldPlayer, newPlayer, transitionDate, tx, result, ghost>>

\* Membership.bulkCreate(movedMemberships, { ignoreDuplicates: true, transaction }).
\* memberships.playerId references players: the insert waits for a
\* transaction that is deleting the player, and succeeds only if the player
\* exists.
TmCreate(p) ==
    /\ pc[p] = "tm_create" /\ CanRun(p)
    /\ LET moved == MovedRows(fetched[p].new, oldPlayer[p])
       IN  /\ ~MembershipKeyLocked(p, moved)
           /\ moved # {} => /\ ~PlayerLocked(p, oldPlayer[p])
                            /\ \E pl \in players : pl.id = oldPlayer[p]
           /\ tx' = [tx EXCEPT ![p].insMem = IgnoreDuplicateMemberships(memberships, moved)]
    /\ fetched' = [fetched EXCEPT ![p] = NoFetch]
    /\ Goto(p, "tp_find")
    /\ UNCHANGED <<db, op, arg, oldPlayer, newPlayer, transitionDate, result, ghost>>

\* newParticipations = await Participation.findAll({ where: filter })
TpFind(p) ==
    /\ pc[p] = "tp_find" /\ CanRun(p)
    /\ fetched' = [fetched EXCEPT
                     ![p].new = createdFilter(participations, newPlayer[p], transitionDate[p])]
    /\ Goto(p, "tp_create")
    /\ UNCHANGED <<db, op, arg, oldPlayer, newPlayer, transitionDate, tx, result, ghost>>

\* Participation.bulkCreate(movedParticipations, { ignoreDuplicates: true, transaction })
TpCreate(p) ==
    /\ pc[p] = "tp_create" /\ CanRun(p)
    /\ LET moved == MovedRows(fetched[p].new, oldPlayer[p])
       IN  /\ ~ParticipationKeyLocked(p, moved)
           /\ tx' = [tx EXCEPT
                       ![p].insPart = IgnoreDuplicateParticipations(participations, moved)]
    /\ fetched' = [fetched EXCEPT ![p] = NoFetch]
    /\ Goto(p, "td_destroy")
    /\ UNCHANGED <<db, op, arg, oldPlayer, newPlayer, transitionDate, result, ghost>>

\* await newPlayer.destroy({ transaction })
TdDestroy(p) ==
    /\ pc[p] = "td_destroy" /\ CanRun(p)
    /\ ~PlayerLocked(p, newPlayer[p])
    /\ tx' = [tx EXCEPT ![p].destroyed = {newPlayer[p]}]
    /\ Goto(p, "td_rename")
    /\ UNCHANGED <<db, op, arg, oldPlayer, newPlayer, transitionDate, fetched, result, ghost>>

\* oldPlayer.username = standardizedName; await oldPlayer.save({ transaction })
TdRename(p) ==
    /\ pc[p] = "td_rename" /\ CanRun(p)
    /\ ~PlayerLocked(p, oldPlayer[p])
    /\ tx' = [tx EXCEPT ![p].renamed =
                 {[id |-> oldPlayer[p], username |-> standardize(Loaded(p).newName)]}]
    /\ Goto(p, "td_commit")
    /\ UNCHANGED <<db, op, arg, oldPlayer, newPlayer, transitionDate, fetched, result, ghost>>

\* await transaction.commit()
TdCommit(p) ==
    /\ pc[p] = "td_commit" /\ CanRun(p)
    /\ records' = CommittedRecords(tx[p])
    /\ snapshots' = CommittedSnapshots(tx[p])
    /\ participations' = CommittedParticipations(tx[p])
    /\ memberships' = CommittedMemberships(tx[p])
    /\ players' = CommittedPlayers(tx[p])
    /\ tx' = [tx EXCEPT ![p] = [NoTx EXCEPT !.state = "committed"]]
    /\ stale' = [q \in Procs |->
                   \/ stale[q]
                   \/ /\ q # p
                      /\ pc[q] \in MergePcs
                      /\ arg[q].id # arg[p].id
                      /\ Overlap(p, q)]
    /\ Goto(p, "approve_save")
    /\ UNCHANGED <<nameChanges, op, arg, oldPlayer, newPlayer, transitionDate, fetched,
                   result, pre, serial, calls>>

\* catch (e) { await transaction.rollback(); throw e; }: the statement at
\* hand throws (failedAt keeps which), the buffered writes are dropped.
TdCatch(p) ==
    /\ pc[p] \in TryPcs /\ CanRun(p)
    /\ tx' = [tx EXCEPT ![p] = [NoTx EXCEPT !.state = "rolledback", !.failedAt = pc[p]]]
    /\ fetched' = [fetched EXCEPT ![p] = NoFetch]
    /\ Finish(p, ErrStore)
    /\ UNCHANGED <<db, op, arg, oldPlayer, newPlayer, transitionDate, ghost>>

\* findLatest throws: the call is outside the try block, the error leaves
\* transferData at once.
TdFindLatestThrows(p) ==
    /\ pc[p] = "td_findLatest" /\ CanRun(p)
    /\ Finish(p, ErrStore)
    /\ UNCHANGED <<db, op, arg, oldPlayer, newPlayer, transitionDate, fetched, tx, ghost>>

\* nameChange.status = APPROVED; nameChange.resolvedAt = new Date(); save()
SaveApproved(request) == [request EXCEPT !.status = APPROVED, !.resolvedAt = Now]

ApproveSave(p) ==
    /\ pc[p] = "approve_save" /\ CanRun(p)
    /\ nameChanges' = [nameChanges EXCEPT ![arg[p].id] = SaveApproved(@)]
    /\ Finish(p, Ok)
    /\ UNCHANGED <<history, op, arg, oldPlayer, newPlayer, transitionDate, fetched, tx, ghost>>

\* A query or a save outside transferData's try block throws.
StoreThrows(p) ==
    /\ pc[p] \in QueryPcs \cup SavePcs /\ CanRun(p)
    /\ Finish(p, ErrStore)
    /\ UNCHANGED <<db, op, arg, oldPlayer, newPlayer, transitionDate, fetched, tx, ghost>>

\* The call's promise settles; the handler is free for the next request.
Return(p) ==
    /\ pc[p] = "returned" /\ CanRun(p)
    /\ Goto(p, "idle")
    /\ op' = [op EXCEPT ![p] = None]
    /\ arg' = [arg EXCEPT ![p] = NoArg]
    /\ oldPlayer' = [oldPlayer EXCEPT ![p] = NoPlayer]
    /\ newPlayer' = [newPlayer EXCEPT ![p] = NoPlayer]
    /\ transitionDate' = [transitionDate EXCEPT ![p] = Undefined]
    /\ fetched' = [fetched EXCEPT ![p] = NoFetch]
    /\ tx' = [tx EXCEPT ![p] = NoTx]
    /\ result' = [result EXCEPT ![p] = None]
    /\ pre' = [pre EXCEPT ![p] = <<>>]
    /\ stale' = [stale EXCEPT ![p] = FALSE]
    /\ UNCHANGED <<db, serial, calls>>

\* ------------------------------------------------------------------ spec

Next ==
    \E p \in Procs :
        \/ SubmitBegin(p) \/ SubmitCheck(p) \/ SubmitCreate(p)
        \/ DenyBegin(p) \/ DenySave(p)
        \/ ApproveBegin(p) \/ ApproveFindOld(p) \/ ApproveFindNew(p)
        \/ TdTransaction(p) \/ TdFindLatest(p) \/ TdFindLatestThrows(p)
        \/ TrFindOld(p) \/ TrFindNew(p) \/ TrUpdate(p)
        \/ TsFind(p) \/ TsCreate(p)
        \/ TmFind(p) \/ TmCreate(p)
        \/ TpFind(p) \/ TpCreate(p)
        \/ TdDestroy(p) \/ TdRename(p) \/ TdCommit(p) \/ TdCatch(p)
        \/ ApproveSave(p) \/ StoreThrows(p) \/ Return(p)

Spec == Init /\ [][Next]_vars
SerialSpec == SerialInit /\ [][Next]_vars

\* ================================================================ claims

\* A call of approve by p has ended (the state right after it returns).
ApproveReturned(p) == pc[p] = "returned" /\ op[p] = "approve"
\* ... normally, with the request approved.
ApproveSucceeded(p) == ApproveReturned(p) /\ result[p] = Ok

\* C1: under any interleaving of submit, deny and approve, a request's status
\* changes at most once, from PENDING to APPROVED or DENIED: no step changes
\* the status of a request that is APPROVED or DENIED.
C1_StatusChangesOnce ==
    [][\A i \in 1..Len(nameChanges) :
          nameChanges[i].status # PENDING
            => nameChanges'[i].status = nameChanges[i].status]_vars

\* C2: of two concurrent approve calls for one PENDING request only one
\* merges: a call that has committed its merge and is about to save the
\* status never finds the request APPROVED by the other call already.
C2_SingleMergePerRequest ==
    \A p \in Procs : pc[p] = "approve_save" => Loaded(p).status # APPROVED

\* Positions of transferData after the records merge (step 2a) and before the
\* commit: the three transfers, the destruction of the new player, the rename.
AfterRecordsPcs ==
    {"ts_find", "ts_create", "tm_find", "tm_create", "tp_find", "tp_create",
     "td_destroy", "td_rename"}

\* An approve call of p has ended by a failure inside the merge, after the
\* records merge and before the commit.
MergeFailed(p) ==
    ApproveReturned(p) /\ tx[p].state = "rolledback" /\ tx[p].failedAt \in AfterRecordsPcs

\* C3: when the merge fails after the records merge and before the commit,
\* then after approve returns every table is as it was before the call, the
\* request is still PENDING and the caller gets the error that was raised.
C3_FailedMergeLeavesNoTrace ==
    \A p \in Procs :
        MergeFailed(p) =>
            /\ db = pre[p]
            /\ Loaded(p).status = PENDING
            /\ result[p] = ErrStore

\* C3's case: the merge has updated donor records and inserted a snapshot, a
\* membership and a participation, the new player is destroyed, and the
\* donor's rename fails.
C3_Witness ==
    \E p \in Procs :
        /\ MergeFailed(p) /\ tx[p].failedAt = "td_rename"
        /\ oldPlayer[p] = 1 /\ newPlayer[p] = 2 /\ transitionDate[p] = 1

\* C4: right after an approve call has returned normally, the donor (the
\* player that held the old name) is named as the request's new name, and the
\* player that held the new name before the call, if any, no longer exists.
C4_DonorRenamedRecipientGone ==
    \A p \in Procs :
        ApproveSucceeded(p) =>
            /\ \E pl \in players :
                  pl.id = oldPlayer[p] /\ pl.username = Loaded(p).newName
            /\ newPlayer[p] # NoPlayer => \A pl \in players : pl.id # newPlayer[p]

\* C5: of concurrent approve calls on two different requests whose names
\* overlap, the second to commit works on what the first committed: no call
\* commits a merge whose player lookups predate the other's commit.
C5_OverlappingMergesSerialized ==
    \A p \in Procs : tx[p].state = "committed" => ~stale[p]

\* ---- the records merge

\* The tables a call found when it began.
PrePlayers(p) == pre[p][1]
PreNameChanges(p) == pre[p][2]
PreRecords(p) == pre[p][3]
PreSnapshots(p) == pre[p][4]
PreMemberships(p) == pre[p][5]
PreParticipations(p) == pre[p][6]

\* A merge with a recipient present went through.
MergedWithRecipient(p) == ApproveSucceeded(p) /\ newPlayer[p] # NoPlayer

\* The transition point of the claim: the createdAt of the donor's latest
\* snapshot before the merge, if it had one.
HadSnapshot(p) == \E s \in PreSnapshots(p) : s.playerId = oldPlayer[p]
TransitionAt(p) ==
    Max({ s.createdAt : s \in { t \in PreSnapshots(p) : t.playerId = oldPlayer[p] } })

\* The recipient's rows, before the merge, for the key of donor row d and
\* updated at or after the transition point.
RecentRecipientRows(p, d) ==
    { r \in PreRecords(p) :
        /\ r.playerId = newPlayer[p]
        /\ r.metric = d.metric /\ r.period = d.period
        /\ HadSnapshot(p) /\ r.updatedAt >= TransitionAt(p) }

\* C6: after a successful merge with a recipient present, each record the
\* donor had before holds the greater of its value before and the value of
\* the recipient's record for the same metric and period updated at or after
\* the transition point (its value before when there is no such record); no
\* donor record is lowered.
C6_RecordsMergeByMax ==
    \A p \in Procs :
        MergedWithRecipient(p) =>
            \A d \in { r \in PreRecords(p) : r.playerId = oldPlayer[p] } :
                \E now \in records :
                    /\ now.id = d.id /\ now.playerId = d.playerId
                    /\ now.metric = d.metric /\ now.period = d.period
                    /\ now.value >= d.value
                    /\ now.value = Max({d.value} \cup { r.value : r \in RecentRecipientRows(p, d) })

\* C6's case: a merge that raised one donor record (attack, 100 to 150) and
\* left another as it was although the recipient had one (defence, 100 over 80).
C6_Witness ==
    \E p \in Procs :
        /\ MergedWithRecipient(p) /\ oldPlayer[p] = 1 /\ newPlayer[p] = 2
        /\ \E r \in records : r.id = 1 /\ r.value = 150
        /\ \E r \in records : r.id = 2 /\ r.value = 100

RecordKey(r) == <<r.playerId, r.metric, r.period>>
RecordKeys(table, playerId) ==
    { <<r.metric, r.period>> : r \in { q \in table : q.playerId = playerId } }

\* C7: the records merge creates no record: the donor owns the same (metric,
\* period) keys after a merge as before (a recipient's record without a donor
\* counterpart is not imported), and in every state there is at most one
\* record per (playerId, metric, period).
C7_NoRecordCreated ==
    /\ \A r1, r2 \in records : RecordKey(r1) = RecordKey(r2) => r1 = r2
    /\ \A p \in Procs :
          ApproveSucceeded(p) =>
              RecordKeys(records, oldPlayer[p]) = RecordKeys(PreRecords(p), oldPlayer[p])

\* C7's case: after a merge the recipient's "ranged" record, updated after the
\* transition point, has no counterpart among the donor's records.
C7_Witness ==
    \E p \in Procs :
        /\ MergedWithRecipient(p) /\ oldPlayer[p] = 1 /\ newPlayer[p] = 2
        /\ transitionDate[p] = 1
        /\ \E r \in PreRecords(p) :
              r.playerId = 2 /\ r.metric = "ranged" /\ r.updatedAt >= transitionDate[p]
        /\ <<"ranged", "week">> \notin RecordKeys(records, 1)

\* ---- the natural-key transfers

\* The three tables after the transfer of the given recipient rows to donor.
SnapshotsAfterTransfer(table, rows, donor) ==
    table \cup WithIds(table, IgnoreDuplicateSnapshots(table, MovedSnapshots(rows, donor)))
ParticipationsAfterTransfer(table, rows, donor) ==
    table \cup IgnoreDuplicateParticipations(table, MovedRows(rows, donor))
MembershipsAfterTransfer(table, rows, donor) ==
    table \cup IgnoreDuplicateMemberships(table, MovedRows(rows, donor))

TransitionDates == Undefined..Now

\* C8: the snapshot, participation and membership transfer applied a second
\* time, with the same recipient rows and the same transition point, leaves
\* the tables (so the donor's rows and their number) as the first application
\* left them.
C8_TransferIdempotent ==
    \A donor \in PlayerIds, recipient \in PlayerIds, at \in TransitionDates :
        LET s == createdFilter(snapshots, recipient, at)
            m == createdFilter(memberships, recipient, at)
            c == createdFilter(participations, recipient, at)
            s1 == SnapshotsAfterTransfer(snapshots, s, donor)
            m1 == MembershipsAfterTransfer(memberships, m, donor)
            c1 == ParticipationsAfterTransfer(participations, c, donor)
        IN  /\ SnapshotsAfterTransfer(s1, s, donor) = s1
            /\ MembershipsAfterTransfer(m1, m, donor) = m1
            /\ ParticipationsAfterTransfer(c1, c, donor) = c1

\* C8's case: a state in which a transfer inserts rows of each kind and skips
\* rows of each kind whose key the donor holds already.
C8_Witness ==
    \E donor \in PlayerIds, recipient \in PlayerIds, at \in TransitionDates :
        LET s == MovedSnapshots(createdFilter(snapshots, recipient, at), donor)
            m == MovedRows(createdFilter(memberships, recipient, at), donor)
            c == MovedRows(createdFilter(participations, recipient, at), donor)
            Partly(ins, moved) == ins # {} /\ ins # moved
        IN  /\ donor # recipient
            /\ Partly(IgnoreDuplicateSnapshots(snapshots, s), s)
            /\ Partly(IgnoreDuplicateMemberships(memberships, m), m)
            /\ Partly(IgnoreDuplicateParticipations(participations, c), c)
            /\ \E p \in Procs : pc[p] = "td_commit" /\ oldPlayer[p] = donor
                                   /\ newPlayer[p] = recipient /\ transitionDate[p] = at

\* ---- the calls that change nothing, or one field

\* C9: approve on a request that is APPROVED or DENIED fails with the
\* "status must be PENDING" error whatever the password, changes no table
\* and starts no transaction.
C9_ApproveNonPendingRejected ==
    \A p \in Procs :
        (/\ ApproveReturned(p)
         /\ arg[p].id \in 1..Len(PreNameChanges(p))
         /\ PreNameChanges(p)[arg[p].id].status # PENDING)
        => /\ result[p] = ErrNotPending
           /\ db = pre[p]
           /\ tx[p] = NoTx

\* C9's case: approve was called with a wrong password on a request that is
\* not PENDING.
C9_Witness ==
    \E p \in Procs :
        /\ ApproveReturned(p) /\ ~arg[p].password
        /\ arg[p].id \in 1..Len(PreNameChanges(p))
        /\ PreNameChanges(p)[arg[p].id].status = APPROVED

\* C10: deny on a PENDING request with the valid password sets that
\* request's status to DENIED and changes nothing else: no other field of it,
\* no other request, no player and no history row (when the store refuses
\* the save, the call fails with the store's error and changes nothing).
C10_DenyChangesStatusOnly ==
    \A p \in Procs :
        (/\ pc[p] = "returned" /\ op[p] = "deny"
         /\ arg[p].id \in 1..Len(PreNameChanges(p))
         /\ PreNameChanges(p)[arg[p].id].status = PENDING
         /\ arg[p].password)
        => IF result[p] = ErrStore
             THEN db = pre[p]
             ELSE /\ result[p] = Ok
                  /\ nameChanges = [PreNameChanges(p) EXCEPT ![arg[p].id].status = DENIED]
                  /\ history = <<PrePlayers(p), PreRecords(p), PreSnapshots(p),
                                 PreMemberships(p), PreParticipations(p)>>

\* C10's case: a deny that succeeded while another request exists.
C10_Witness ==
    \E p \in Procs :
        /\ pc[p] = "returned" /\ op[p] = "deny" /\ result[p] = Ok
        /\ Len(nameChanges) = 2

\* ---- submit

SubmitReturned(p) == pc[p] = "returned" /\ op[p] = "submit"

\* What the call found when it began: a player named as the donor, a PENDING
\* request for the same two names, any other request for them.
DonorTracked(p) == \E pl \in PrePlayers(p) : pl.username = arg[p].oldName
SamePair(p, i) ==
    /\ PreNameChanges(p)[i].oldName = arg[p].oldName
    /\ PreNameChanges(p)[i].newName = arg[p].newName
PendingPair(p) ==
    \E i \in 1..Len(PreNameChanges(p)) :
        SamePair(p, i) /\ PreNameChanges(p)[i].status = PENDING
ResolvedPair(p) ==
    \E i \in 1..Len(PreNameChanges(p)) :
        SamePair(p, i) /\ PreNameChanges(p)[i].status # PENDING

\* The call created one request, PENDING, for its names, and changed no
\* other request, no player and no history row.
CreatedOnePending(p) ==
    /\ result[p] = Ok
    /\ Len(nameChanges) = Len(PreNameChanges(p)) + 1
    /\ SubSeq(nameChanges, 1, Len(PreNameChanges(p))) = PreNameChanges(p)
    /\ LET new == nameChanges[Len(nameChanges)]
       IN  /\ new.status = PENDING /\ new.resolvedAt = Undefined
           /\ new.oldName = arg[p].oldName /\ new.newName = arg[p].newName
    /\ history = <<PrePlayers(p), PreRecords(p), PreSnapshots(p),
                   PreMemberships(p), PreParticipations(p)>>

\* The outcome of submit when the donor is tracked: the error for a PENDING
\* request with the same names and nothing created, otherwise one new
\* request (requests with these names that are APPROVED or DENIED do not
\* count); when the store fails, its error and nothing created.
SubmitOfTracked(p) ==
    IF result[p] = ErrStore THEN db = pre[p]
    ELSE IF PendingPair(p) THEN result[p] = ErrSimilar /\ db = pre[p]
    ELSE CreatedOnePending(p)

RequestExisted(p) == arg[p].id \in 1..Len(PreNameChanges(p))
PreRequest(p) == PreNameChanges(p)[arg[p].id]

\* approve was called with the valid password on a PENDING request whose old
\* name no player held.
DonorVanished(p) ==
    /\ ApproveReturned(p) /\ arg[p].password
    /\ RequestExisted(p) /\ PreRequest(p).status = PENDING
    /\ \A pl \in PrePlayers(p) : pl.username # PreRequest(p).oldName

\* C12: approve of a PENDING request with the valid password, when no player
\* holds the request's old name, fails with the ServerError "Old Player
\* cannot be found", leaves the request PENDING, opens no transaction and
\* changes no table (when a player lookup itself fails, the call ends with
\* the store's error, and changes nothing either).
C12_VanishedDonorRejected ==
    \A p \in Procs :
        DonorVanished(p) =>
            /\ result[p] \in {ErrOldPlayerGone, ErrStore}
            /\ result[p] # ErrStore => ErrorClass(result[p]) = "ServerError"
            /\ db = pre[p]
            /\ Loaded(p).status = PENDING
            /\ tx[p] = NoTx

\* C12's case: the donor of the request was renamed by an earlier approval,
\* and the approval fails with the ServerError.
C12_Witness ==
    \E p \in Procs :
        /\ DonorVanished(p) /\ result[p] = ErrOldPlayerGone
        /\ \E i \in 1..Len(nameChanges) :
              nameChanges[i].status = APPROVED /\ nameChanges[i].oldName = Loaded(p).oldName

\* deny or approve was called with a wrong password.
WrongPassword(p) ==
    pc[p] = "returned" /\ op[p] \in {"deny", "approve"} /\ ~arg[p].password

\* C13: deny and approve with a wrong password change nothing (no request,
\* player or history row) and open no transaction, and the error follows the
\* order of the checks: the NotFoundError when no request has the id,
\* otherwise "status must be PENDING" when the request is not PENDING,
\* otherwise "Incorrect password".
C13_WrongPasswordChangesNothing ==
    \A p \in Procs :
        WrongPassword(p) =>
            /\ db = pre[p]
            /\ tx[p] = NoTx
            /\ result[p] = IF ~RequestExisted(p) THEN ErrIdNotFound
                           ELSE IF PreRequest(p).status # PENDING THEN ErrNotPending
                           ELSE ErrPassword
            /\ ~RequestExisted(p) => ErrorClass(result[p]) = "NotFoundError"

\* C13's case: deny with a wrong password on a request that is DENIED already.
C13_Witness ==
    \E p \in Procs :
        /\ WrongPassword(p) /\ op[p] = "deny"
        /\ RequestExisted(p) /\ PreRequest(p).status = DENIED
        /\ \E i \in 1..Len(nameChanges) : nameChanges[i].status = PENDING

\* ---- invariants of the tables

\* C14: in every reachable state, under any interleaving of submit, deny and
\* approve, no two players have the same username.
C14_UsernamesUnique ==
    \A p1, p2 \in players : p1.username = p2.username => p1 = p2

\* C15: in every reachable state a request has resolvedAt set if and only if
\* its status is APPROVED.
C15_ResolvedAtIffApproved ==
    \A i \in 1..Len(nameChanges) :
        nameChanges[i].resolvedAt # Undefined <=> nameChanges[i].status = APPROVED

\* ---- the transaction of the merge

\* C16: every transaction the merge opens is committed or rolled back before
\* the call ends, on every path, including a failure of the lookup of the
\* donor's latest snapshot: no call has returned with its transaction open.
C16_NoTransactionLeftOpen ==
    \A p \in Procs : pc[p] = "returned" => tx[p].state # "open"

\* ---- the transfers of a merge

Owned(table, playerId) == { r \in table : r.playerId = playerId }

\* The recipient's rows of a table, before the merge, created at or after
\* the transition point.
RecentOf(p, table) ==
    { r \in Owned(table, newPlayer[p]) : r.createdAt >= TransitionAt(p) }

\* A snapshot without its id (what a copy keeps of the original).
Content(s) == [createdAt |-> s.createdAt, data |-> s.data]

\* C17: after a successful merge with a recipient present and a transition
\* point, the donor's snapshots, participations and memberships are its rows
\* before the merge, unchanged, plus one copy of each row the recipient had
\* created at or after the transition point whose natural key (createdAt,
\* competitionId, groupId) the donor did not hold; nothing older is copied
\* and a donor row is kept on a collision.
C17_TransferExact ==
    \A p \in Procs :
        (MergedWithRecipient(p) /\ HadSnapshot(p)) =>
            LET donor == oldPlayer[p]
                hadS == Owned(PreSnapshots(p), donor)
                hadM == Owned(PreMemberships(p), donor)
                hadC == Owned(PreParticipations(p), donor)
                newS == { r \in RecentOf(p, PreSnapshots(p)) :
                            \A d \in hadS : d.createdAt # r.createdAt }
                newM == { r \in RecentOf(p, PreMemberships(p)) :
                            \A d \in hadM : d.groupId # r.groupId }
                newC == { r \in RecentOf(p, PreParticipations(p)) :
                            \A d \in hadC : d.competitionId # r.competitionId }
                gotS == Owned(snapshots, donor) \ hadS
            IN  /\ hadS \subseteq snapshots
                /\ { Content(s) : s \in gotS } = { Content(s) : s \in newS }
                /\ Cardinality(gotS) = Cardinality(newS)
                /\ Owned(memberships, donor) = hadM \cup MovedRows(newM, donor)
                /\ Owned(participations, donor) = hadC \cup MovedRows(newC, donor)

\* ---- approve: the merge and the request

\* C18: the commit of the merge and the status update are one unit: after an
\* approve call has returned, normally or with an error, its merge is not
\* committed while the request is still PENDING.
C18_CommitAndStatusTogether ==
    \A p \in Procs :
        (ApproveReturned(p) /\ tx[p].state = "committed") => Loaded(p).status # PENDING

\* C19: the player approve renames and merges into is the one recorded on the
\* request when it was submitted (playerId), whatever has happened to the
\* old name since.
C19_MergesIntoRecordedPlayer ==
    \A p \in Procs :
        (op[p] = "approve" /\ tx[p].state = "committed") =>
            oldPlayer[p] = Loaded(p).playerId

\* C20: in every reachable state, also with interleaved submit calls, at most
\* one PENDING request exists for a pair of old and new name.
C20_OnePendingPerPair ==
    \A i, j \in 1..Len(nameChanges) :
        (/\ nameChanges[i].status = PENDING /\ nameChanges[j].status = PENDING
         /\ nameChanges[i].oldName = nameChanges[j].oldName
         /\ nameChanges[i].newName = nameChanges[j].newName)
        => i = j

====
